---- MODULE Spec2Model ----
(***************************************************************************)
(* A model of the procurement chat assistant:                              *)
(*   - SQLAgent.process_question / execute_query_with_retry                *)
(*     (sql_agent_py.py) over DatabaseManager.execute_query                *)
(*     (database_py.py), specification SpecAgent;                          *)
(*   - ChatManager.add_message / get_session_messages /                    *)
(*     get_conversation_context (chat_manager_py.py), specification        *)
(*     SpecChat.                                                           *)
(*                                                                         *)
(* Python values are modelled as follows.  A str is a sequence of TLA+     *)
(* strings: one string per character where the code looks inside the text  *)
(* (queries), one token per text where it does not (explanations, error    *)
(* messages, message contents).  An Optional value is None or Some(v).  A  *)
(* dict is a record; dicts with different keys are records with different  *)
(* domains.                                                                *)
(***************************************************************************)
EXTENDS Integers, Sequences, FiniteSets, TLC

VARIABLES
    \* ---- SQLAgent / DatabaseManager (specification SpecAgent) ----
    cfgMaxRetries,  \* config.MAX_QUERY_RETRIES
    pc,             \* position of the agent: "idle", "retry", "done"
    caller,         \* who entered the retry engine: "process_question" or "direct"
    sql_response,   \* SQLResponse returned by generate_sql (or NoResponse)
    sql_query,      \* execute_query_with_retry: argument sql_query
    max_retries,    \* execute_query_with_retry: local max_retries
    attempt,        \* execute_query_with_retry: local attempt
    last_error,     \* execute_query_with_retry: local last_error
    storeLog,       \* the calls made to db_manager.execute_query, in order
    exec_result,    \* dict returned by execute_query_with_retry (or NoResult)
    result,         \* dict returned by process_question (or NoResult)
    \* ---- ChatManager (specification SpecChat) ----
    messages,       \* chat_messages of the session, in created_at order
    sent,           \* the arguments of the add_message calls that stored them
    chat_pc,        \* "open", or "read" / "failed" once get_conversation_context has run
    ctx_messages,   \* get_conversation_context: local messages (line 187)
    last_n,         \* get_conversation_context: argument last_n
    context,        \* list returned by get_conversation_context
    \* ---- SQLAgent.generate_sql (specification SpecGenerate) ----
    gen_pc,         \* "idle", or "returned" once generate_sql has returned
    user_question,  \* generate_sql: argument user_question
    conversation_history,   \* generate_sql: argument conversation_history
    prompt,         \* generate_sql: local context, the prompt given to agent.run
    model_call,     \* what agent.run did: its output, or the error it raised
    gen_response,   \* SQLResponse returned by generate_sql (or NoResponse)
    \* ---- SQLAgent.__init__ (specification SpecCtor) ----
    ctor_pc,        \* "new", "schema_loaded", "prompt_built", "constructed",
                    \* or "failed" when __init__ raised
    schema_file,    \* the file at config.TABLE_SCHEMA_PATH
    template_file,  \* the file system_prompt.txt
    schema_info,    \* self.schema_info
    system_prompt,  \* self.system_prompt
    ctor_error,     \* the exception __init__ raised, or None
    \* ---- ChatManager over its two collections (specification SpecStore) ----
    chat_sessions,  \* collection chat_sessions: the session documents, by _id
    chat_messages,  \* collection chat_messages: the message documents
    clock,          \* datetime.utcnow(), as a logical time
    last_op,        \* the last ChatManager call: arguments and outcome
    deleted_ok,     \* ids for which delete_session has returned True
    \* ---- handle_user_input on one session (specification SpecApp) ----
    app_pc,         \* position in handle_user_input, "idle" between calls
    processing,     \* st.session_state.processing
    st_messages,    \* st.session_state.messages
    app_history,    \* the session's persisted messages, oldest first
    app_read,       \* how the call's history read went: "none", "ok", "failed"
    app_context,    \* what get_conversation_context returned to the call
    app_response,   \* what generate_sql returned to the call
    app_result,     \* what process_user_query returned to the call
    app_events,     \* what the call has done so far, in order
    handled,        \* number of handle_user_input calls so far
    warned,         \* the busy warning is on the page
    \* ---- clients sharing the session store (specification SpecClients) ----
    current_session_id, \* st.session_state.current_session_id, per client
    sessions,       \* what get_all_sessions returned to the client's run
    client_pc,      \* position of the client's script run
    deleted_by      \* per session, the clients whose delete_session set it

agentVars == <<cfgMaxRetries, pc, caller, sql_response, sql_query, max_retries,
               attempt, last_error, storeLog, exec_result, result>>
chatVars == <<messages, sent, chat_pc, ctx_messages, last_n, context>>
genVars == <<gen_pc, user_question, conversation_history, prompt, model_call,
             gen_response>>
ctorVars == <<ctor_pc, schema_file, template_file, schema_info, system_prompt,
              ctor_error>>
storeVars == <<chat_sessions, chat_messages, clock, last_op, deleted_ok>>
appVars == <<app_pc, processing, st_messages, app_history, app_read,
             app_context, app_response, app_result, app_events, handled,
             warned>>
clientVars == <<current_session_id, sessions, client_pc, deleted_by>>
vars == <<agentVars, chatVars, genVars, ctorVars, storeVars, appVars,
          clientVars>>

\* What the actions of one component leave alone.
besidesAgent == <<chatVars, genVars, ctorVars, storeVars, appVars,
                 clientVars>>
besidesChat == <<agentVars, genVars, ctorVars, storeVars, appVars,
                 clientVars>>
besidesGen == <<agentVars, chatVars, ctorVars, storeVars, appVars,
                 clientVars>>
besidesCtor == <<agentVars, chatVars, genVars, storeVars, appVars,
                 clientVars>>
besidesStore == <<agentVars, chatVars, genVars, ctorVars, appVars,
                 clientVars>>
besidesApp == <<agentVars, chatVars, genVars, ctorVars, storeVars,
               clientVars>>
besidesClients == <<agentVars, chatVars, genVars, ctorVars, appVars>>

(***************************************************************************)
(* Bounds of the model.                                                    *)
(***************************************************************************)
MaxRetries == 3     \* largest retry bound explored (configured or passed)
MaxMsgs == 5        \* longest persisted history explored
MaxLastN == 3       \* largest last_n explored
MaxHistory == 4     \* longest conversation_history given to generate_sql
MaxSessions == 2    \* most session documents created
MaxStoreMsgs == 2   \* most message documents inserted over all sessions
MaxClock == 3       \* most writing ChatManager calls
MaxQuestions == 3   \* most handle_user_input calls on the session

(***************************************************************************)
(* Python values.                                                          *)
(***************************************************************************)
None == [none |-> TRUE]
Some(v) == [some |-> v]

\* Python truthiness of an Optional[str]: None and "" are falsy.
Truthy(x) == x # None /\ x.some # <<>>

\* len(results) if results else 0, for an Optional list.
RowCount(x) == IF x # None /\ x.some # <<>> THEN Len(x.some) ELSE 0

NoResponse == [absent |-> TRUE]
NoResult == [absent |-> TRUE]

(***************************************************************************)
(* str.strip() and str.lower() on a sequence of characters.                *)
(***************************************************************************)
IsSpace(c) == c \in {" ", "\t", "\n"}

RECURSIVE LStrip(_)
LStrip(s) == IF s # <<>> /\ IsSpace(Head(s)) THEN LStrip(Tail(s)) ELSE s

RECURSIVE RStrip(_)
RStrip(s) ==
    IF s # <<>> /\ IsSpace(s[Len(s)]) THEN RStrip(SubSeq(s, 1, Len(s) - 1)) ELSE s

Strip(s) == RStrip(LStrip(s))

LowerChar(c) ==
    CASE c = "N" -> "n"
      [] c = "O" -> "o"
      [] c = "E" -> "e"
      [] OTHER -> c

Lower(s) == [i \in 1..Len(s) |-> LowerChar(s[i])]

\* The literal 'none' of sql_agent_py.py line 165.
NoneLiteral == <<"n", "o", "n", "e">>

(***************************************************************************)
(* Inputs: what the language model and the data store can hand back.       *)
(***************************************************************************)
\* Query texts the model may emit, as character sequences.
Queries ==
    { <<>>,
      <<" ", " ", " ">>,
      <<"n", "o", "n", "e">>,
      <<"N", "o", "n", "e">>,
      <<"N", "O", "N", "E">>,
      <<" ", "n", "o", "n", "e", " ">>,
      <<"n", "o", "n", "e", "e">>,
      <<"[", "]">>,
      <<" ", "[", " ", "]">> }

Explanations == { <<"E1">>, <<"E2">> }
Confidences == { "high", "medium", "low" }
ModelErrors == { "timeout", "bad output" }
StoreErrors == { "e1", "e2" }

\* Result documents of an aggregation (field values tagged with their Python type).
Row1 == [dept |-> [t |-> "str", v |-> "IT"], total |-> [t |-> "float", v |-> "10"]]
Row2 == [dept |-> [t |-> "str", v |-> "HR"], total |-> [t |-> "float", v |-> "7"]]
RowLists == { <<>>, <<Row1>>, <<Row1, Row2>> }

(***************************************************************************)
(* DatabaseManager.execute_query: (success, results, error).                *)
(***************************************************************************)
StoreReturn(success, results, error) ==
    [success |-> success, results |-> results, error |-> error]

\* json.loads(query) succeeds with a list.  Over the characters used here
\* (no quotes, digits or commas) the only JSON texts are arrays holding at
\* most one array.
RECURSIVE IsJsonArray(_)
IsJsonArray(s) ==
    /\ Len(s) >= 2
    /\ s[1] = "["
    /\ s[Len(s)] = "]"
    /\ LET inner == Strip(SubSeq(s, 2, Len(s) - 1))
       IN  inner = <<>> \/ IsJsonArray(inner)

JsonLoads(query) == IsJsonArray(Strip(query))

\* execute_aggregation: the documents, or one of its two except clauses.
ExecuteAggregation ==
    { StoreReturn(TRUE, Some(rows), None) : rows \in RowLists }
    \cup { StoreReturn(FALSE, None, Some(<<"MongoDB Operation Error: ", e>>)) :
             e \in StoreErrors }
    \cup { StoreReturn(FALSE, None, Some(<<"Database Error: ", e>>)) :
             e \in StoreErrors }

\* The set of values one call execute_query(query) can return.
ExecuteQuery(query) ==
    IF JsonLoads(query)
    THEN ExecuteAggregation
    ELSE { StoreReturn(FALSE, None,
                       Some(<<"Query Parse Error: Invalid JSON - ", "decode">>)) }

\* One entry of the call log of db_manager.execute_query.
StoreCall(query, ret) ==
    [query |-> query, success |-> ret.success, results |-> ret.results,
     error |-> ret.error]

(***************************************************************************)
(* SQLAgent.generate_sql.                                                  *)
(***************************************************************************)
SQLResponse(q, explanation, confidence) ==
    [sql_query |-> q, explanation |-> explanation, confidence |-> confidence]

\* The except clause of generate_sql (lines 131-137).
GenerateSqlFailure_Generic(e) == SQLResponse(None, <<"Error generating SQL">>, "low")
GenerateSqlFailure(e) == SQLResponse(None, <<"Error: ", e>>, "low")

\* result.output of a model call that did not fail.
ModelOutputs ==
    { SQLResponse(q, x, c) :
        q \in {None} \cup { Some(s) : s \in Queries },
        x \in Explanations, c \in Confidences }

\* What the call agent.run(context, deps=deps) of line 128 can do: return an
\* output, or raise.
ModelCalls ==
    { [failed |-> FALSE, output |-> r] : r \in ModelOutputs }
    \cup { [failed |-> TRUE, error |-> e] : e \in ModelErrors }

\* The value generate_sql returns after that call (lines 128-137).
GenerateSqlOf(call) ==
    IF call.failed THEN GenerateSqlFailure(call.error) ELSE call.output

\* Every value generate_sql can return.
GenerateSql == { GenerateSqlOf(call) : call \in ModelCalls }

(***************************************************************************)
(* SQLAgent.process_question and execute_query_with_retry.                 *)
(***************************************************************************)
\* Line 165: not sql_query or sql_query.strip().lower() == 'none'.
IsChatOnly(q) == IF ~Truthy(q) THEN TRUE ELSE Lower(Strip(q.some)) = NoneLiteral

\* Lines 166-172.
ChatOnlyResult_LowConfidence(resp) ==
    [success |-> TRUE, sql_query |-> None, explanation |-> resp.explanation,
     confidence |-> "low", results |-> None]
ChatOnlyResult(resp) ==
    [success |-> TRUE, sql_query |-> None, explanation |-> resp.explanation,
     confidence |-> resp.confidence, results |-> None]

\* Lines 177-184.
ExecutedResult_DowngradeOnFailure(resp, er) ==
    [success |-> er.success, sql_query |-> resp.sql_query,
     explanation |-> resp.explanation,
     confidence |-> IF er.success THEN resp.confidence ELSE "low",
     results |-> er.results, error |-> er.error]
ExecutedResult(resp, er) ==
    [success |-> er.success, sql_query |-> resp.sql_query,
     explanation |-> resp.explanation, confidence |-> resp.confidence,
     results |-> er.results, error |-> er.error]

\* Line 147: the loop condition.
LoopContinues_GiveUpAfterFirst(a, m) == a < m /\ a < 1
LoopContinues_OffByOne(a, m) == a <= m
LoopContinues(a, m) == a < m

\* Line 152: the return on success.
SuccessResult_StaleError(results, err) ==
    [success |-> TRUE, results |-> results, rows |-> RowCount(results),
     error |-> err]
SuccessResult(results, err) ==
    [success |-> TRUE, results |-> results, rows |-> RowCount(results),
     error |-> None]

\* Line 154: last_error = error.
RecordError_KeepFirst(old, error) == IF old = None THEN error ELSE old
RecordError(old, error) == error

\* Line 157: the return after the loop.
FailureResult(err) == [success |-> FALSE, results |-> None, error |-> err]

\* max_retries as passed, or config.MAX_QUERY_RETRIES (lines 141-142).
EffectiveMaxRetries(arg) == IF arg = None THEN cfgMaxRetries ELSE arg.some

\* What the return of execute_query_with_retry does to the caller's state.
ReturnFromRetry(er) ==
    /\ exec_result' = er
    /\ pc' = "done"
    /\ result' = IF caller = "process_question"
                 THEN ExecutedResult(sql_response, er)
                 ELSE result

\* The agent before any call.
AgentStart ==
    /\ pc = "idle"
    /\ caller = "none"
    /\ sql_response = NoResponse
    /\ sql_query = <<>>
    /\ max_retries = 0
    /\ attempt = 0
    /\ last_error = None
    /\ storeLog = <<>>
    /\ exec_result = NoResult
    /\ result = NoResult

\* MAX_QUERY_RETRIES comes from the environment (config_py.py line 32,
\* default 3).  Configured bounds from 1 up are explored here (a bound of 0
\* also through the max_retries argument of a direct call); SpecAgentEnv
\* explores the configured bounds below 1.
AgentInit == cfgMaxRetries \in 1..MaxRetries /\ AgentStart

\* Every value int(os.getenv("MAX_QUERY_RETRIES", "3")) is explored with:
\* the positive bounds, 0 and a negative one.
ConfiguredBounds == (-1)..MaxRetries

\* Entry of execute_query_with_retry (lines 141-145).
EnterRetry(q, arg, who) ==
    /\ caller' = who
    /\ sql_query' = q
    /\ max_retries' = EffectiveMaxRetries(arg)
    /\ attempt' = 0
    /\ last_error' = None
    /\ pc' = "retry"

\* process_question, generation returned "no query": lines 162-172.
ProcessQuestionChat ==
    /\ pc = "idle"
    /\ \E resp \in GenerateSql :
          /\ IsChatOnly(resp.sql_query)
          /\ sql_response' = resp
          /\ result' = ChatOnlyResult(resp)
    /\ pc' = "done"
    /\ caller' = "process_question"
    /\ UNCHANGED <<besidesAgent, cfgMaxRetries, sql_query, max_retries, attempt, last_error,
                   storeLog, exec_result>>

\* process_question, generation returned a query: lines 162-175.
ProcessQuestionQuery ==
    /\ pc = "idle"
    /\ \E resp \in GenerateSql :
          /\ ~IsChatOnly(resp.sql_query)
          /\ sql_response' = resp
          /\ EnterRetry(resp.sql_query.some, None, "process_question")
    /\ UNCHANGED <<besidesAgent, cfgMaxRetries, storeLog, exec_result, result>>

\* A direct call execute_query_with_retry(sql_query, max_retries).
ExecuteQueryWithRetry ==
    /\ pc = "idle"
    /\ \E q \in Queries, arg \in {None} \cup { Some(n) : n \in 0..MaxRetries } :
          EnterRetry(q, arg, "direct")
    /\ UNCHANGED <<besidesAgent, cfgMaxRetries, sql_response, storeLog, exec_result, result>>

\* One loop iteration whose execution succeeds: lines 147-152.
AttemptSucceeds ==
    /\ pc = "retry"
    /\ LoopContinues(attempt, max_retries)
    /\ \E ret \in ExecuteQuery(sql_query) :
          /\ ret.success
          /\ storeLog' = Append(storeLog, StoreCall(sql_query, ret))
          /\ attempt' = attempt + 1
          /\ ReturnFromRetry(SuccessResult(ret.results, last_error))
    /\ UNCHANGED <<besidesAgent, cfgMaxRetries, caller, sql_response, sql_query, max_retries,
                   last_error>>

\* One loop iteration whose execution fails: lines 147-155.
AttemptFails ==
    /\ pc = "retry"
    /\ LoopContinues(attempt, max_retries)
    /\ \E ret \in ExecuteQuery(sql_query) :
          /\ ~ret.success
          /\ storeLog' = Append(storeLog, StoreCall(sql_query, ret))
          /\ attempt' = attempt + 1
          /\ last_error' = RecordError(last_error, ret.error)
    /\ UNCHANGED <<besidesAgent, cfgMaxRetries, pc, caller, sql_response, sql_query,
                   max_retries, exec_result, result>>

\* The loop condition fails: line 157.
RetriesExhausted ==
    /\ pc = "retry"
    /\ ~LoopContinues(attempt, max_retries)
    /\ ReturnFromRetry(FailureResult(last_error))
    /\ UNCHANGED <<besidesAgent, cfgMaxRetries, caller, sql_response, sql_query, max_retries,
                   attempt, last_error, storeLog>>

\* The except clause of process_question (lines 186-188) has no action:
\* generate_sql catches every Exception itself and execute_query returns its
\* failures as (False, None, message), so nothing inside the try raises.
AgentNext ==
    \/ ProcessQuestionChat
    \/ ProcessQuestionQuery
    \/ ExecuteQueryWithRetry
    \/ AttemptSucceeds
    \/ AttemptFails
    \/ RetriesExhausted

(***************************************************************************)
(* ChatManager: one session's message log.                                  *)
(***************************************************************************)
EmptyDict == [k \in {} |-> None]

\* The metadata handle_user_input builds (streamlit_app_py.py lines 699-704).
AppMetadata(q, results, confidence, success) ==
    [sql_query |-> q, results |-> results, confidence |-> confidence,
     success |-> success]

\* A result document holding a decimal.Decimal, as a store can return it.
RowDecimal ==
    [dept |-> [t |-> "str", v |-> "IT"], total |-> [t |-> "Decimal", v |-> "10"]]

Q1 == <<"[", "]">>

UserContents == { <<"X1">>, <<"X2">> }

\* What add_message is called with: (role, content, metadata).
AddMessageInputs ==
    { <<"user", c, None>> : c \in UserContents }
    \cup { <<"assistant", <<"Z1">>, None>>,
           <<"assistant", <<"Z2">>, None>>,
           <<"assistant", <<"Z1">>,
             Some(AppMetadata(None, None, "medium", TRUE))>>,
           <<"assistant", <<"Z2">>,
             Some(AppMetadata(Some(Q1), Some(<<RowDecimal>>), "high", TRUE))>> }

\* json_serializer (lines 115-121) applied by json.dumps to one value, and
\* json.loads of the text written: a Decimal comes back as a float, a
\* datetime as its ISO string.
JsonValue(x) ==
    CASE x.t = "Decimal" -> [t |-> "float", v |-> x.v]
      [] x.t = "datetime" -> [t |-> "str", v |-> x.v]
      [] OTHER -> x

JsonRow(row) == [f \in DOMAIN row |-> JsonValue(row[f])]

JsonResults(r) ==
    IF r = None THEN None ELSE Some([i \in 1..Len(r.some) |-> JsonRow(r.some[i])])

\* json.loads(json.dumps(metadata, default=json_serializer)), line 127.
JsonRoundTrip(md) ==
    [f \in DOMAIN md |-> IF f = "results" THEN JsonResults(md[f]) ELSE md[f]]

\* The document add_message inserts (lines 125-135).
MessageDoc(role, content, metadata) ==
    [role |-> role, content |-> content,
     metadata |-> IF metadata # None /\ metadata.some # EmptyDict
                  THEN JsonRoundTrip(metadata.some)
                  ELSE EmptyDict]

\* metadata.get('sql_query', ''), line 206.  Stored metadata is always a
\* dict (add_message stores a dict or {}), so the str branch of lines
\* 198-202 is never taken.
SqlOf_WrongKey(md) == IF "sql" \in DOMAIN md THEN md.sql ELSE Some(<<>>)
SqlOf(md) == IF "sql_query" \in DOMAIN md THEN md.sql_query ELSE Some(<<>>)

\* The dict appended at lines 204-208.
Turn(user_msg, assistant_msg) ==
    [question |-> user_msg.content,
     sql |-> SqlOf(assistant_msg.metadata),
     response |-> assistant_msg.content]

\* Line 192, for the 0-based index i.
IsPair_UserOnly(msgs, i) == msgs[i + 1].role = "user"
IsPair(msgs, i) == msgs[i + 1].role = "user" /\ msgs[i + 2].role = "assistant"

\* A scan that also makes a turn of a trailing user message without reply.
RECURSIVE ScanFrom_LoneUser(_, _)
ScanFrom_LoneUser(msgs, i) ==
    IF i >= Len(msgs)
    THEN <<>>
    ELSE IF i = Len(msgs) - 1
    THEN (IF msgs[i + 1].role = "user"
          THEN <<[question |-> msgs[i + 1].content, sql |-> Some(<<>>),
                  response |-> <<>>]>>
          ELSE <<>>)
    ELSE (IF IsPair(msgs, i) THEN <<Turn(msgs[i + 1], msgs[i + 2])>> ELSE <<>>)
         \o ScanFrom_LoneUser(msgs, i + 2)

\* The loop of lines 191-208 from the 0-based index i on:
\* for i in range(0, len(messages) - 1, 2).
RECURSIVE ScanFrom(_, _)
ScanFrom(msgs, i) ==
    IF i >= Len(msgs) - 1
    THEN <<>>
    ELSE (IF IsPair(msgs, i) THEN <<Turn(msgs[i + 1], msgs[i + 2])>> ELSE <<>>)
         \o ScanFrom(msgs, i + 2)

\* context after the loop (lines 190-208).
ConversationTurns_LoneUser(msgs) == ScanFrom_LoneUser(msgs, 0)
ConversationTurns(msgs) == ScanFrom(msgs, 0)

\* Python's seq[-n:].
LastSlice_First(seq, n) == SubSeq(seq, 1, IF n < Len(seq) THEN n ELSE Len(seq))
LastSlice(seq, n) ==
    LET len == Len(seq)
        start == IF n > 0 THEN (IF len - n > 0 THEN len - n ELSE 0)
                 ELSE (IF -n < len THEN -n ELSE len)
    IN  SubSeq(seq, start + 1, len)

\* Line 210: context[-last_n:] if context else [].
ConversationContext(msgs, n) ==
    LET ctx == ConversationTurns(msgs)
    IN  IF ctx # <<>> THEN LastSlice(ctx, n) ELSE <<>>

ChatInit ==
    /\ messages = <<>>
    /\ sent = <<>>
    /\ chat_pc = "open"
    /\ ctx_messages = <<>>
    /\ last_n = 0
    /\ context = <<>>

\* add_message(session_id, role, content, metadata) returning a message id
\* (lines 123-146).  Every later read starts from "open" again.
AddMessage ==
    /\ Len(messages) < MaxMsgs
    /\ \E in \in AddMessageInputs :
          /\ messages' = Append(messages, MessageDoc(in[1], in[2], in[3]))
          /\ sent' = Append(sent, in)
    /\ chat_pc' = "open"
    /\ ctx_messages' = <<>>
    /\ last_n' = 0
    /\ context' = <<>>
    /\ UNCHANGED besidesChat

\* get_conversation_context(session_id, last_n), the read of line 187
\* returning the session's messages.
GetConversationContext ==
    /\ chat_pc = "open"
    /\ \E n \in 0..MaxLastN :
          /\ last_n' = n
          /\ ctx_messages' = messages
          /\ context' = ConversationContext(messages, n)
    /\ chat_pc' = "read"
    /\ UNCHANGED <<besidesChat, messages, sent>>

\* get_conversation_context when the read of line 187 fails:
\* get_session_messages logs the error and returns [] (lines 102-104).
GetConversationContextReadFails ==
    /\ chat_pc = "open"
    /\ \E n \in 0..MaxLastN :
          /\ last_n' = n
          /\ ctx_messages' = <<>>
          /\ context' = ConversationContext(<<>>, n)
    /\ chat_pc' = "failed"
    /\ UNCHANGED <<besidesChat, messages, sent>>

ChatNext ==
    \/ AddMessage
    \/ GetConversationContext
    \/ GetConversationContextReadFails

(***************************************************************************)
(* SQLAgent.generate_sql: the prompt and the model call.                   *)
(***************************************************************************)
\* conversation_history[-3:] keeps this many entries (line 119).
RecentTurns == 3

Questions == UserContents

\* Entries of conversation_history: the turns get_conversation_context
\* returns, and one entry without the key 'sql'.
HistoryTurns ==
    { [question |-> <<"X1">>, sql |-> Some(Q1), response |-> <<"Z2">>],
      [question |-> <<"X2">>, sql |-> Some(<<>>), response |-> <<"Z1">>],
      [question |-> <<"X1">>, sql |-> None, response |-> <<"Z1">>],
      [question |-> <<"X2">>, response |-> <<"Z2">>] }

Histories == UNION { [1..n -> HistoryTurns] : n \in 0..MaxHistory }

\* entry.get('question', '') and entry.get('sql'), lines 122-123.
EntryQuestion(entry) ==
    IF "question" \in DOMAIN entry THEN entry.question ELSE <<>>
EntrySql(entry) == IF "sql" \in DOMAIN entry THEN entry.sql ELSE None

\* Line 119.
RecentContext_First(h) ==
    SubSeq(h, 1, IF Len(h) < RecentTurns THEN Len(h) ELSE RecentTurns)
RecentContext(h) == LastSlice(h, RecentTurns)

\* What one entry adds to the prompt (lines 122-125).
EntryLines(entry) ==
    <<"Q: ">> \o EntryQuestion(entry) \o <<"\n">>
    \o (IF Truthy(EntrySql(entry))
        THEN <<"SQL: ">> \o EntrySql(entry).some \o <<"\n">>
        ELSE <<>>)

\* The loop of lines 121-125.
RECURSIVE ContextLines(_)
ContextLines(entries) ==
    IF entries = <<>>
    THEN <<>>
    ELSE EntryLines(Head(entries)) \o ContextLines(Tail(entries))

\* The local context of lines 117-126.
BuildPrompt(question, h) ==
    IF h # <<>>
    THEN <<"Previous context:\n">> \o ContextLines(RecentContext(h))
         \o <<"\nCurrent question: ">> \o question
    ELSE question

NoCall == [absent |-> TRUE]

GenInit ==
    /\ gen_pc = "idle"
    /\ user_question = <<>>
    /\ conversation_history = <<>>
    /\ prompt = <<>>
    /\ model_call = NoCall
    /\ gen_response = NoResponse

\* generate_sql(user_question, conversation_history): lines 112-137.
GenerateSqlCall ==
    /\ gen_pc = "idle"
    /\ \E q \in Questions, h \in Histories, call \in ModelCalls :
          /\ user_question' = q
          /\ conversation_history' = h
          /\ prompt' = BuildPrompt(q, h)
          /\ model_call' = call
          /\ gen_response' = GenerateSqlOf(call)
    /\ gen_pc' = "returned"
    /\ UNCHANGED besidesGen

GenNext == GenerateSqlCall

(***************************************************************************)
(* SQLAgent.__init__: loading the schema and building the system prompt.   *)
(***************************************************************************)
\* Python values yaml.safe_load can return besides None.
PyDict(d) == [dict |-> d]
PyList(l) == [list |-> l]
PyStr(t) == [str |-> t]
IsDict(v) == "dict" \in DOMAIN v

\* dict.get(key, default).
DictGet(d, key, default) == IF key \in DOMAIN d THEN d[key] ELSE default

\* The literal {} of lines 56 and 64.
EmptySchema == PyDict(EmptyDict)

Col1 == [name |-> <<"id">>, type |-> <<"int">>, description |-> <<"key">>]
Col2 == [name |-> <<"amt">>, type |-> <<"float">>]
ColNoType == [name |-> <<"x">>]
Note1 == [note |-> <<"N1">>]
Note2 == [note |-> <<"N2">>]

\* Top-level mappings a schema file can hold.
SchemaMappings ==
    { EmptyDict,
      [table_name |-> <<"orders">>, description |-> <<"D1">>,
       columns |-> <<Col1, Col2>>, llm_query_notes |-> <<Note1, Note2>>],
      [table_name |-> <<"orders">>],
      [description |-> <<"D1">>],
      [columns |-> <<Col2, Col1>>],
      [llm_query_notes |-> <<Note1>>],
      [table_name |-> <<"orders">>, columns |-> <<Col1, ColNoType>>] }

\* What yaml.safe_load returns for a file it can parse: None for an empty
\* file, a list or a string for a document whose top level is no mapping.
YamlDocuments ==
    { None, PyList(<<"a">>), PyStr(<<"orders">>) }
    \cup { PyDict(d) : d \in SchemaMappings }

\* The states of the file at TABLE_SCHEMA_PATH.
SchemaFiles ==
    { [kind |-> "missing"], [kind |-> "unparseable"] }
    \cup { [kind |-> "yaml", document |-> v] : v \in YamlDocuments }

\* _load_yaml_schema (lines 50-64): {} for a missing file and for any
\* exception of open or yaml.safe_load, else what yaml.safe_load returned.
LoadYamlSchema(file) ==
    IF file.kind = "yaml" THEN file.document ELSE EmptySchema

\* A template is a format string: literal text and replacement fields.
Lit(t) == [lit |-> t]
Slot(name) == [slot |-> name]

\* The documents system_prompt.txt is explored with: well-formed format
\* strings over the four fields of lines 97-102, each naming the table.
Templates ==
    { << Lit("About "), Slot("database_description"), Lit(" in "),
         Slot("table_name"), Lit(" with\n"), Slot("table_schema"),
         Lit("Notes:\n"), Slot("query_notes") >>,
      << Lit("Query "), Slot("table_name"), Lit(".") >>,
      << Slot("table_schema"), Lit("Table: "), Slot("table_name") >> }

TemplateFiles ==
    { [readable |-> FALSE] }
    \cup { [readable |-> TRUE, text |-> t] : t \in Templates }

\* Line 78.
FallbackPrompt ==
    <<"You are an AI assistant. Please convert natural language to SQL.">>

\* Line 88, for one column.
ColumnLine(col) ==
    <<"- **">> \o col.name \o <<"** (">> \o col.type \o <<"): ">>
    \o DictGet(col, "description", <<>>) \o <<"\n">>

\* Lines 86-88.
RECURSIVE ColumnsStr(_)
ColumnsStr(cols) ==
    IF cols = <<>> THEN <<>>
    ELSE ColumnLine(Head(cols)) \o ColumnsStr(Tail(cols))

\* Lines 91-94.
RECURSIVE NotesStr(_)
NotesStr(notes) ==
    IF notes = <<>> THEN <<>>
    ELSE (<<"- ">> \o Head(notes).note \o <<"\n">>) \o NotesStr(Tail(notes))

\* template.format(**kw), lines 97-102.
RECURSIVE Format(_, _)
Format(template, kw) ==
    IF template = <<>> THEN <<>>
    ELSE LET part == Head(template)
         IN  (IF "slot" \in DOMAIN part THEN kw[part.slot] ELSE <<part.lit>>)
             \o Format(Tail(template), kw)

Raised(e) == [raised |-> TRUE, error |-> e]
Returned(v) == [raised |-> FALSE, value |-> v]

\* Lines 82-102: the prompt from a template that was read.
FillTemplate(template, info) ==
    IF ~IsDict(info)
    THEN Raised("AttributeError")
    ELSE LET d == info.dict
             cols == DictGet(d, "columns", <<>>)
         IN  IF \E i \in 1..Len(cols) :
                    ~({"name", "type"} \subseteq DOMAIN cols[i])
             THEN Raised("KeyError")
             ELSE Returned(Format(template,
                    [database_description |->
                        DictGet(d, "description", <<"No description provided">>),
                     table_schema |-> ColumnsStr(cols),
                     query_notes |->
                        NotesStr(DictGet(d, "llm_query_notes", <<>>)),
                     table_name |->
                        DictGet(d, "table_name", <<"unknown_table">>)]))

\* _build_system_prompt (lines 66-104): the template is read first.
BuildSystemPrompt_SchemaFirst(file, info) ==
    IF ~IsDict(info)
    THEN Raised("AttributeError")
    ELSE IF ~file.readable
         THEN Returned(FallbackPrompt)
         ELSE FillTemplate(file.text, info)
BuildSystemPrompt(file, info) ==
    IF ~file.readable
    THEN Returned(FallbackPrompt)
    ELSE FillTemplate(file.text, info)

NotLoaded == [absent |-> TRUE]

CtorStart ==
    /\ ctor_pc = "new"
    /\ schema_info = NotLoaded
    /\ system_prompt = <<>>
    /\ ctor_error = None

CtorInit ==
    /\ schema_file \in SchemaFiles
    /\ template_file \in TemplateFiles
    /\ CtorStart

\* The agent of the other specifications: constructed, with no schema file
\* and no template file.
CtorDone ==
    /\ schema_file = [kind |-> "missing"]
    /\ template_file = [readable |-> FALSE]
    /\ ctor_pc = "constructed"
    /\ schema_info = EmptySchema
    /\ system_prompt = FallbackPrompt
    /\ ctor_error = None

\* Line 36.
LoadSchemaStep ==
    /\ ctor_pc = "new"
    /\ schema_info' = LoadYamlSchema(schema_file)
    /\ ctor_pc' = "schema_loaded"
    /\ UNCHANGED <<besidesCtor, schema_file, template_file, system_prompt,
                   ctor_error>>

\* Line 39, _build_system_prompt returns.
BuildPromptStep ==
    /\ ctor_pc = "schema_loaded"
    /\ LET r == BuildSystemPrompt(template_file, schema_info)
       IN  /\ ~r.raised
           /\ system_prompt' = r.value
    /\ ctor_pc' = "prompt_built"
    /\ UNCHANGED <<besidesCtor, schema_file, template_file, schema_info,
                   ctor_error>>

\* Line 39, _build_system_prompt raises: __init__ has no handler.
BuildPromptRaises ==
    /\ ctor_pc = "schema_loaded"
    /\ LET r == BuildSystemPrompt(template_file, schema_info)
       IN  /\ r.raised
           /\ ctor_error' = Some(r.error)
    /\ ctor_pc' = "failed"
    /\ UNCHANGED <<besidesCtor, schema_file, template_file, schema_info,
                   system_prompt>>

\* Lines 41-48: the model and the agent are created from the prompt (the
\* provider's credentials are taken to be configured).
CreateAgent ==
    /\ ctor_pc = "prompt_built"
    /\ ctor_pc' = "constructed"
    /\ UNCHANGED <<besidesCtor, schema_file, template_file, schema_info,
                   system_prompt, ctor_error>>

CtorNext ==
    \/ LoadSchemaStep
    \/ BuildPromptStep
    \/ BuildPromptRaises
    \/ CreateAgent

(***************************************************************************)
(* ChatManager over the collections chat_sessions and chat_messages.       *)
(***************************************************************************)
\* A session id argument: the text of an ObjectId, or a text ObjectId()
\* rejects.  The n-th session created has the ObjectId n.
Oid(n) == [oid |-> n]
BadId == [text |-> "not-an-object-id"]
IsObjectId(id) == "oid" \in DOMAIN id
SessionIdArgs == { Oid(n) : n \in 1..MaxSessions } \cup { BadId }
NoId == [absent |-> TRUE]

SessionNames == { <<"A">>, <<"B">> }

\* Line 46: the name given to a session created without one.
DefaultSessionName == <<"Chat <now>">>

\* Lines 48-53.
SessionDoc(name, now) ==
    [session_name |-> name, created_at |-> now, updated_at |-> now,
     is_deleted |-> FALSE]

\* A document of chat_sessions with this _id exists.
SessionExists(id) ==
    IF IsObjectId(id) THEN id.oid \in 1..Len(chat_sessions) ELSE FALSE

\* A result document holding a value json_serializer rejects (a nested
\* ObjectId; only the top-level _id is converted, database_py.py 62-64).
RowObjectId ==
    [dept |-> [t |-> "str", v |-> "IT"], ref |-> [t |-> "ObjectId", v |-> "9"]]

\* What add_message is called with here: (role, content, metadata).
StoreMessageInputs ==
    { <<"user", <<"X1">>, None>>,
      <<"assistant", <<"Z1">>,
        Some(AppMetadata(None, None, "medium", TRUE))>>,
      <<"assistant", <<"Z2">>,
        Some(AppMetadata(Some(Q1), Some(<<RowObjectId>>), "high", TRUE))>> }

\* The types json.dumps writes, by itself or through json_serializer
\* (lines 115-121); for any other it raises TypeError.
JsonTypes == {"str", "float", "int", "bool", "Decimal", "datetime"}

\* json.dumps(metadata, default=json_serializer) of line 127 returns.
JsonSerializable(metadata) ==
    IF ~Truthy(metadata) THEN TRUE
    ELSE IF metadata.some.results = None THEN TRUE
    ELSE \A i \in 1..Len(metadata.some.results.some) :
            LET row == metadata.some.results.some[i]
            IN  \A f \in DOMAIN row : row[f].t \in JsonTypes

\* Lines 129-137: the document inserted, with the _id it gets.
StoredMessage(mid, sid, in, now) ==
    LET d == MessageDoc(in[1], in[2], in[3])
    IN  [id |-> mid, session_id |-> sid, role |-> d.role,
         content |-> d.content, metadata |-> d.metadata, created_at |-> now]

\* Lines 93-99: one entry of the list get_session_messages returns.
ReturnedMessage(doc) ==
    [message_id |-> doc.id, role |-> doc.role, content |-> doc.content,
     metadata |-> doc.metadata, created_at |-> doc.created_at]

\* Lines 87-100: find({"session_id": session_id}).sort("created_at", 1).
\* created_at grows with every insert, so the sorted order is the
\* insertion order.
RECURSIVE SessionMessagesOf(_, _)
SessionMessagesOf(docs, sid) ==
    IF docs = <<>> THEN <<>>
    ELSE (IF Head(docs).session_id = sid
          THEN <<ReturnedMessage(Head(docs))>>
          ELSE <<>>)
         \o SessionMessagesOf(Tail(docs), sid)

\* Line 68: the filter {"is_deleted": False}.
LiveSessions_All == 1..Len(chat_sessions)
LiveSessions == { n \in 1..Len(chat_sessions) : ~chat_sessions[n].is_deleted }

\* Lines 74-79: one entry of the list get_all_sessions returns.
ListedSession(n) ==
    [session_id |-> Oid(n), session_name |-> chat_sessions[n].session_name,
     created_at |-> chat_sessions[n].created_at,
     updated_at |-> chat_sessions[n].updated_at]

\* Line 70: .sort("updated_at", DESCENDING).
RECURSIVE SortByUpdatedDesc(_)
SortByUpdatedDesc(S) ==
    IF S = {} THEN <<>>
    ELSE LET n == CHOOSE x \in S :
                     \A y \in S : chat_sessions[y].updated_at
                                    <= chat_sessions[x].updated_at
         IN  <<ListedSession(n)>> \o SortByUpdatedDesc(S \ {n})

\* The outcome of one call, as the caller sees it.
Outcome(op, id, store_failed, raised, ret) ==
    [op |-> op, id |-> id, store_failed |-> store_failed, raised |-> raised,
     ret |-> ret]

StoreInit ==
    /\ chat_sessions = <<>>
    /\ chat_messages = <<>>
    /\ clock = 0
    /\ last_op = Outcome("none", NoId, FALSE, FALSE, None)
    /\ deleted_ok = {}

\* update_one({"_id": ObjectId(session_id)}, {"$set": fields}) on a session
\* that exists.
SetSession(id, fields) ==
    [chat_sessions EXCEPT ![id.oid] =
        [f \in DOMAIN @ |-> IF f \in DOMAIN fields THEN fields[f] ELSE @[f]]]

\* create_session(session_name), lines 43-62: the insert fails and the
\* error is raised again, or the document is inserted.
CreateSession ==
    /\ Len(chat_sessions) < MaxSessions
    /\ clock < MaxClock
    /\ clock' = clock + 1
    /\ \E arg \in {None} \cup { Some(n) : n \in SessionNames },
          fails \in BOOLEAN :
          LET name == IF Truthy(arg) THEN arg.some ELSE DefaultSessionName
              new == Oid(Len(chat_sessions) + 1)
          IN  IF fails
              THEN /\ last_op' = Outcome("create_session", NoId, TRUE, TRUE,
                                         None)
                   /\ UNCHANGED chat_sessions
              ELSE /\ chat_sessions' =
                          Append(chat_sessions, SessionDoc(name, clock'))
                   /\ last_op' = Outcome("create_session", NoId, FALSE,
                                         FALSE, Some(new))
    /\ UNCHANGED <<besidesStore, chat_messages, deleted_ok>>

\* get_all_sessions(), lines 64-83: [] when the store fails.
GetAllSessions ==
    /\ \E fails \in BOOLEAN :
          last_op' = Outcome("get_all_sessions", NoId, fails, FALSE,
                             IF fails THEN <<>>
                             ELSE SortByUpdatedDesc(LiveSessions))
    /\ UNCHANGED <<besidesStore, chat_sessions, chat_messages, clock,
                   deleted_ok>>

\* get_session_messages(session_id), lines 85-104: [] when the store fails.
GetSessionMessages ==
    /\ \E id \in SessionIdArgs, fails \in BOOLEAN :
          last_op' = Outcome("get_session_messages", id, fails, FALSE,
                             IF fails THEN <<>>
                             ELSE SessionMessagesOf(chat_messages, id))
    /\ UNCHANGED <<besidesStore, chat_sessions, chat_messages, clock,
                   deleted_ok>>

\* add_message(session_id, role, content, metadata), lines 106-149.
\* json.dumps can reject the metadata before anything is written; the
\* insert can fail; after it ObjectId(session_id) can reject the id and the
\* update of the session can fail, and both leave the message inserted.
\* The update has no filter on is_deleted and sets updated_at only.
StoreAddMessage ==
    /\ Len(chat_messages) < MaxStoreMsgs
    /\ clock < MaxClock
    /\ clock' = clock + 1
    /\ \E id \in SessionIdArgs, in \in StoreMessageInputs,
          fault \in {"none", "insert", "update"} :
          LET mid == Len(chat_messages) + 1
              doc == StoredMessage(mid, id, in, clock')
          IN  IF ~JsonSerializable(in[3])
              THEN /\ last_op' = Outcome("add_message", id, FALSE, TRUE, None)
                   /\ UNCHANGED <<chat_messages, chat_sessions>>
              ELSE IF fault = "insert"
              THEN /\ last_op' = Outcome("add_message", id, TRUE, TRUE, None)
                   /\ UNCHANGED <<chat_messages, chat_sessions>>
              ELSE /\ chat_messages' = Append(chat_messages, doc)
                   /\ IF ~IsObjectId(id)
                      THEN /\ last_op' = Outcome("add_message", id, FALSE,
                                                 TRUE, None)
                           /\ UNCHANGED chat_sessions
                      ELSE IF fault = "update"
                      THEN /\ last_op' = Outcome("add_message", id, TRUE,
                                                 TRUE, None)
                           /\ UNCHANGED chat_sessions
                      ELSE /\ last_op' = Outcome("add_message", id, FALSE,
                                                 FALSE, Some(mid))
                           /\ chat_sessions' =
                                IF SessionExists(id)
                                THEN SetSession(id, [updated_at |-> clock'])
                                ELSE chat_sessions
    /\ UNCHANGED <<besidesStore, deleted_ok>>

\* rename_session(session_id, new_name), lines 151-164: False when
\* ObjectId() rejects the id, when the store fails and when no live session
\* has the id.
RenameSession ==
    /\ clock < MaxClock
    /\ clock' = clock + 1
    /\ \E id \in SessionIdArgs, name \in SessionNames, fails \in BOOLEAN :
          IF ~IsObjectId(id)
          THEN /\ last_op' = Outcome("rename_session", id, FALSE, FALSE,
                                     FALSE)
               /\ UNCHANGED chat_sessions
          ELSE IF fails
          THEN /\ last_op' = Outcome("rename_session", id, TRUE, FALSE, FALSE)
               /\ UNCHANGED chat_sessions
          ELSE IF SessionExists(id) /\ id.oid \in LiveSessions
          THEN /\ chat_sessions' =
                     SetSession(id, [session_name |-> name,
                                     updated_at |-> clock'])
               /\ last_op' = Outcome("rename_session", id, FALSE, FALSE, TRUE)
          ELSE /\ last_op' = Outcome("rename_session", id, FALSE, FALSE,
                                     FALSE)
               /\ UNCHANGED chat_sessions
    /\ UNCHANGED <<besidesStore, chat_messages, deleted_ok>>

\* delete_session(session_id), lines 166-179: the update has no filter on
\* is_deleted; False when ObjectId() rejects the id, when the store fails
\* and when no session has the id.
DeleteSession ==
    /\ clock < MaxClock
    /\ clock' = clock + 1
    /\ \E id \in SessionIdArgs, fails \in BOOLEAN :
          IF ~IsObjectId(id)
          THEN /\ last_op' = Outcome("delete_session", id, FALSE, FALSE,
                                     FALSE)
               /\ UNCHANGED <<chat_sessions, deleted_ok>>
          ELSE IF fails
          THEN /\ last_op' = Outcome("delete_session", id, TRUE, FALSE, FALSE)
               /\ UNCHANGED <<chat_sessions, deleted_ok>>
          ELSE IF SessionExists(id)
          THEN /\ chat_sessions' =
                     SetSession(id, [is_deleted |-> TRUE,
                                     updated_at |-> clock'])
               /\ last_op' = Outcome("delete_session", id, FALSE, FALSE, TRUE)
               /\ deleted_ok' = deleted_ok \cup {id}
          ELSE /\ last_op' = Outcome("delete_session", id, FALSE, FALSE,
                                     FALSE)
               /\ UNCHANGED <<chat_sessions, deleted_ok>>
    /\ UNCHANGED <<besidesStore, chat_messages>>

StoreNext ==
    \/ CreateSession
    \/ GetAllSessions
    \/ GetSessionMessages
    \/ StoreAddMessage
    \/ RenameSession
    \/ DeleteSession

(***************************************************************************)
(* streamlit_app_py.handle_user_input on the client's current session.     *)
(***************************************************************************)
\* process_user_query asks for this many turns (line 620).
ContextLastN == 5

\* The question of the n-th call: the user asks something new each time.
AppQuestion(n) == <<"X", ToString(n)>>

\* What generate_sql hands back here: a chat answer, a query, a blank
\* query, the text none, and its own failure value.
AppResponses ==
    { SQLResponse(None, <<"E1">>, "medium"),
      SQLResponse(Some(Q1), <<"E2">>, "high"),
      SQLResponse(Some(<<" ", " ", " ">>), <<"E1">>, "high"),
      SQLResponse(Some(NoneLiteral), <<"E2">>, "low"),
      GenerateSqlFailure("timeout") }

\* The returns of execute_query(query) explored here: two rows, the
\* query's parse error, and one error of each kind of the store.
AppStoreReturns(query) ==
    { ret \in ExecuteQuery(query) :
        IF ret.success
        THEN ret.results = Some(<<Row1, Row2>>)
        ELSE ret.error.some[2] \in {"decode", "e1"} }

\* What execute_query_with_retry(query) can return under a configured
\* bound of at least 1: the rows of a successful execution, or the error
\* of a failed one (lines 147-157).
EngineReturns(query) ==
    { IF ret.success
      THEN SuccessResult(ret.results, None)
      ELSE FailureResult(ret.error) : ret \in AppStoreReturns(query) }

\* Lines 670-671 and 699-704: result.get(key, default).
ResultGet(res, key, default) == DictGet(res, key, default)

\* Line 678: len(result.get('results', [])) raises for None.
ResponseRaises(res) ==
    /\ ResultGet(res, "success", FALSE)
    /\ Truthy(ResultGet(res, "sql_query", None))
    /\ ResultGet(res, "results", Some(<<>>)) = None

\* Lines 673-693: the text of the assistant's reply.
FullResponse(res) ==
    IF ResultGet(res, "success", FALSE)
    THEN LET explanation ==
                 ResultGet(res, "explanation", <<"Here are the results.">>)
         IN  IF Truthy(ResultGet(res, "sql_query", None))
             THEN explanation
                  \o <<"\n\n", "*Retrieved ",
                       ToString(Len(ResultGet(res, "results", Some(<<>>)).some)),
                       " rows*">>
             ELSE explanation
    ELSE LET error_msg ==
                 ResultGet(res, "error",
                           Some(<<"An unexpected error occurred.">>))
         IN  <<"Unable to process your request\n\n">>
             \o (IF error_msg = None THEN <<"None">> ELSE error_msg.some)

\* Lines 699-704.
ResponseMetadata(res) ==
    AppMetadata(ResultGet(res, "sql_query", None),
                ResultGet(res, "results", Some(<<>>)),
                ResultGet(res, "confidence", "medium"),
                ResultGet(res, "success", FALSE))

\* Lines 643 and 713-717: the entries of st.session_state.messages.
StMessage(role, content, metadata) ==
    [role |-> role, content |-> content, metadata |-> metadata]

\* What one add_message call on the current session can do: return, fail
\* before the insert, or fail after it (lines 137-149).
AddMessageFaults == {"none", "insert", "update"}

\* The session's messages after add_message with this fault.
HistoryAfterAdd(history, role, content, metadata, fault) ==
    IF fault = "insert" \/ ~JsonSerializable(metadata)
    THEN history
    ELSE Append(history, MessageDoc(role, content, metadata))

\* add_message raised.
AddRaised(metadata, fault) == fault # "none" \/ ~JsonSerializable(metadata)

\* Line 730, in the finally clause: the flag after the call, whether or
\* not the call raised.
ProcessingAfterCall_OnlyOnSuccess(raised) == raised
ProcessingAfterCall(raised) == FALSE

AppInit ==
    /\ app_pc = "idle"
    /\ processing = FALSE
    /\ st_messages = <<>>
    /\ app_history = <<>>
    /\ app_read = "none"
    /\ app_context = <<>>
    /\ app_response = NoResponse
    /\ app_result = NoResult
    /\ app_events = <<>>
    /\ handled = 0
    /\ warned = FALSE

\* handle_user_input(user_question), lines 635-645.  While the flag is set
\* (a call entered before the running one has ended) the call shows the
\* warning and returns; otherwise the flag is set, the user message is
\* appended in memory and persisted, and if add_message raises the call
\* ends through except and finally.
HandleUserInput ==
    IF processing
    THEN /\ warned' = TRUE
         /\ UNCHANGED <<besidesApp, app_pc, processing, st_messages,
                        app_history, app_read, app_context, app_response,
                        app_result, app_events, handled>>
    ELSE /\ app_pc = "idle"
         /\ handled < MaxQuestions
         /\ handled' = handled + 1
         /\ warned' = FALSE
         /\ \E q \in {AppQuestion(handled')}, fault \in AddMessageFaults :
               /\ st_messages' =
                     Append(st_messages, StMessage("user", q, EmptyDict))
               /\ app_history' =
                     HistoryAfterAdd(app_history, "user", q, None, fault)
               /\ app_events' = IF fault = "insert" THEN <<>>
                                ELSE <<"persist_user">>
               /\ IF AddRaised(None, fault)
                  THEN /\ app_pc' = "idle"
                       /\ processing' = ProcessingAfterCall(TRUE)
                  ELSE /\ app_pc' = "user_saved"
                       /\ processing' = TRUE
         /\ app_read' = "none"
         /\ app_context' = <<>>
         /\ app_response' = NoResponse
         /\ app_result' = NoResult
         /\ UNCHANGED besidesApp

\* process_user_query, lines 618-621: get_conversation_context on the
\* current session; a failed read gives the context of no messages.
ReadContext ==
    /\ app_pc = "user_saved"
    /\ \E fails \in BOOLEAN :
          /\ app_read' = IF fails THEN "failed" ELSE "ok"
          /\ app_context' =
                ConversationContext(IF fails THEN <<>> ELSE app_history,
                                    ContextLastN)
    /\ app_events' = Append(app_events, "read_context")
    /\ app_pc' = "context_read"
    /\ UNCHANGED <<besidesApp, processing, st_messages, app_history,
                   app_response, app_result, handled, warned>>

\* process_question, lines 162-172: generate_sql, and the chat-only return.
Generate ==
    /\ app_pc = "context_read"
    /\ \E resp \in AppResponses :
          /\ app_response' = resp
          /\ IF IsChatOnly(resp.sql_query)
             THEN /\ app_result' = ChatOnlyResult(resp)
                  /\ app_pc' = "answered"
             ELSE /\ app_result' = app_result
                  /\ app_pc' = "execute"
    /\ app_events' = Append(app_events, "generate")
    /\ UNCHANGED <<besidesApp, processing, st_messages, app_history,
                   app_read, app_context, handled, warned>>

\* process_question, lines 175-184: the retry engine and the result.
Execute ==
    /\ app_pc = "execute"
    /\ \E er \in EngineReturns(app_response.sql_query.some) :
          app_result' = ExecutedResult(app_response, er)
    /\ app_events' = Append(app_events, "execute")
    /\ app_pc' = "answered"
    /\ UNCHANGED <<besidesApp, processing, st_messages, app_history,
                   app_read, app_context, app_response, handled, warned>>

\* handle_user_input, lines 668-730: the reply is built and rendered
\* (either can raise), appended in memory and persisted; then the finally
\* clause.
Respond ==
    /\ app_pc = "answered"
    /\ \E render_fails \in BOOLEAN, fault \in AddMessageFaults :
          LET content == FullResponse(app_result)
              metadata == ResponseMetadata(app_result)
          IN  IF render_fails \/ ResponseRaises(app_result)
              THEN /\ processing' = ProcessingAfterCall(TRUE)
                   /\ UNCHANGED <<st_messages, app_history, app_events>>
              ELSE /\ st_messages' =
                         Append(st_messages,
                                StMessage("assistant", content, metadata))
                   /\ app_history' =
                         HistoryAfterAdd(app_history, "assistant", content,
                                         Some(metadata), fault)
                   /\ app_events' =
                         IF app_history' # app_history
                         THEN Append(app_events, "persist_assistant")
                         ELSE app_events
                   /\ processing' =
                         ProcessingAfterCall(AddRaised(Some(metadata), fault))
    /\ app_pc' = "idle"
    /\ UNCHANGED <<besidesApp, app_read, app_context, app_response,
                   app_result, handled, warned>>

AppNext ==
    \/ HandleUserInput
    \/ ReadContext
    \/ Generate
    \/ Execute
    \/ Respond

(***************************************************************************)
(* Two clients of the application sharing the session store:               *)
(* initialize_session_state, sidebar_chat_management, load_session and the *)
(* add_message of handle_user_input.  Every client has its own             *)
(* st.session_state; a step is one call of ChatManager.                    *)
(***************************************************************************)
Clients == {"a", "b"}

\* Line 754: is_current = s_id == st.session_state.current_session_id.
IsCurrent(c, s_id) == s_id = current_session_id[c]

\* Line 781: the Delete button is drawn only if not is_current.
DeleteOffered_Always(is_current) == TRUE
DeleteOffered(is_current) == ~is_current

\* The ids of a list get_all_sessions returned.
ListedIds(list) == { list[i].session_id : i \in 1..Len(list) }

ClientInit ==
    /\ current_session_id = [c \in Clients |-> NoId]
    /\ sessions = [c \in Clients |-> <<>>]
    /\ client_pc = [c \in Clients |-> "start"]
    /\ deleted_by = [n \in 1..MaxSessions |-> {}]

\* The session create_session() inserts and the id it returns.
CreatedBy(c) ==
    /\ chat_sessions' = Append(chat_sessions,
                               SessionDoc(DefaultSessionName, clock'))
    /\ current_session_id' =
          [current_session_id EXCEPT ![c] = Oid(Len(chat_sessions) + 1)]

\* initialize_session_state, lines 414-416: the first run of a client
\* creates its session; create_session raises when the insert fails and
\* the run ends without a current session.
InitializeSessionState ==
    \E c \in Clients, fails \in BOOLEAN :
        /\ client_pc[c] = "start"
        /\ Len(chat_sessions) < MaxSessions
        /\ clock < MaxClock
        /\ clock' = clock + 1
        /\ IF fails
           THEN UNCHANGED <<chat_sessions, current_session_id, client_pc>>
           ELSE /\ CreatedBy(c)
                /\ client_pc' = [client_pc EXCEPT ![c] = "ready"]
        /\ UNCHANGED <<besidesClients, chat_messages, last_op, deleted_ok,
                       sessions, deleted_by>>

\* New Chat, lines 739-741: create_session and load_session(session_id),
\* which makes the new session current (line 433) and reruns.
NewChat ==
    \E c \in Clients, fails \in BOOLEAN :
        /\ client_pc[c] = "ready"
        /\ Len(chat_sessions) < MaxSessions
        /\ clock < MaxClock
        /\ clock' = clock + 1
        /\ IF fails
           THEN UNCHANGED <<chat_sessions, current_session_id>>
           ELSE CreatedBy(c)
        /\ UNCHANGED <<besidesClients, chat_messages, last_op, deleted_ok,
                       sessions, client_pc, deleted_by>>

\* Line 746: sessions = chat_manager.get_all_sessions(), [] when the store
\* fails.
ListSessions ==
    \E c \in Clients, fails \in BOOLEAN :
        /\ client_pc[c] = "ready"
        /\ sessions' = [sessions EXCEPT ![c] =
                           IF fails THEN <<>>
                           ELSE SortByUpdatedDesc(LiveSessions)]
        /\ client_pc' = [client_pc EXCEPT ![c] = "listed"]
        /\ UNCHANGED <<besidesClients, storeVars, current_session_id,
                       deleted_by>>

\* The button of a listed session that is not the current one (disabled
\* for the current one, line 767) calls load_session(s_id), lines 430-452:
\* the session becomes the current one.
LoadSession ==
    \E c \in Clients :
        /\ client_pc[c] = "listed"
        /\ \E s_id \in ListedIds(sessions[c]) :
              /\ ~IsCurrent(c, s_id)
              /\ current_session_id' =
                    [current_session_id EXCEPT ![c] = s_id]
        /\ client_pc' = [client_pc EXCEPT ![c] = "ready"]
        /\ sessions' = [sessions EXCEPT ![c] = <<>>]
        /\ UNCHANGED <<besidesClients, storeVars, deleted_by>>

\* The Delete button of a listed session, lines 781-785, calls
\* delete_session(s_id) (lines 166-179: no filter on is_deleted, False when
\* the store fails) and reruns.
DeleteListedSession ==
    \E c \in Clients, fails \in BOOLEAN :
        /\ client_pc[c] = "listed"
        /\ clock < MaxClock
        /\ clock' = clock + 1
        /\ \E s_id \in ListedIds(sessions[c]) :
              /\ DeleteOffered(IsCurrent(c, s_id))
              /\ IF fails
                 THEN UNCHANGED <<chat_sessions, deleted_ok, deleted_by>>
                 ELSE /\ chat_sessions' =
                            SetSession(s_id, [is_deleted |-> TRUE,
                                              updated_at |-> clock'])
                      /\ deleted_ok' = deleted_ok \cup {s_id}
                      /\ deleted_by' =
                            [deleted_by EXCEPT ![s_id.oid] = @ \cup {c}]
        /\ client_pc' = [client_pc EXCEPT ![c] = "ready"]
        /\ sessions' = [sessions EXCEPT ![c] = <<>>]
        /\ UNCHANGED <<besidesClients, chat_messages, last_op,
                       current_session_id>>

\* handle_user_input, line 645: add_message on the client's current
\* session (lines 106-149 of chat_manager_py.py), then the rerun.
Ask ==
    \E c \in Clients, fault \in AddMessageFaults :
        /\ client_pc[c] = "listed"
        /\ Len(chat_messages) < MaxStoreMsgs
        /\ clock < MaxClock
        /\ clock' = clock + 1
        /\ LET id == current_session_id[c]
               doc == StoredMessage(Len(chat_messages) + 1, id,
                                    <<"user", AppQuestion(clock'), None>>,
                                    clock')
           IN  IF fault = "insert"
               THEN UNCHANGED <<chat_messages, chat_sessions>>
               ELSE /\ chat_messages' = Append(chat_messages, doc)
                    /\ chat_sessions' =
                          IF fault = "update" THEN chat_sessions
                          ELSE SetSession(id, [updated_at |-> clock'])
        /\ client_pc' = [client_pc EXCEPT ![c] = "ready"]
        /\ sessions' = [sessions EXCEPT ![c] = <<>>]
        /\ UNCHANGED <<besidesClients, last_op, deleted_ok,
                       current_session_id, deleted_by>>

\* A run in which no button is pressed and nothing is asked.
RunEnds ==
    \E c \in Clients :
        /\ client_pc[c] = "listed"
        /\ client_pc' = [client_pc EXCEPT ![c] = "ready"]
        /\ sessions' = [sessions EXCEPT ![c] = <<>>]
        /\ UNCHANGED <<besidesClients, storeVars, current_session_id,
                       deleted_by>>

ClientsNext ==
    \/ InitializeSessionState
    \/ NewChat
    \/ ListSessions
    \/ LoadSession
    \/ DeleteListedSession
    \/ Ask
    \/ RunEnds

(***************************************************************************)
(* Specifications.                                                         *)
(***************************************************************************)
InitAgent == AgentInit /\ ChatInit /\ GenInit /\ CtorDone /\ StoreInit /\ AppInit
    /\ ClientInit

SpecAgent == InitAgent /\ [][AgentNext]_vars

InitAgentEnv ==
    cfgMaxRetries \in ConfiguredBounds /\ AgentStart /\ ChatInit /\ GenInit /\ CtorDone /\ StoreInit /\ AppInit
    /\ ClientInit

SpecAgentEnv == InitAgentEnv /\ [][AgentNext]_vars

\* The agent's code is sequential and the store call returns (with rows or
\* with an error): a call that can take a step takes it.
SpecAgentLive == InitAgentEnv /\ [][AgentNext]_vars /\ WF_vars(AgentNext)

InitChat == AgentInit /\ cfgMaxRetries = MaxRetries /\ ChatInit /\ GenInit /\ CtorDone /\ StoreInit /\ AppInit
    /\ ClientInit

SpecChat == InitChat /\ [][ChatNext]_vars

InitGenerate == AgentInit /\ cfgMaxRetries = MaxRetries /\ ChatInit /\ GenInit /\ CtorDone /\ StoreInit /\ AppInit
    /\ ClientInit

SpecGenerate == InitGenerate /\ [][GenNext]_vars

InitCtor == AgentInit /\ cfgMaxRetries = MaxRetries /\ ChatInit /\ GenInit /\ CtorInit
    /\ StoreInit /\ AppInit
    /\ ClientInit

SpecCtor == InitCtor /\ [][CtorNext]_vars

InitStore == AgentInit /\ cfgMaxRetries = MaxRetries /\ ChatInit /\ GenInit
    /\ CtorDone /\ StoreInit /\ AppInit
    /\ ClientInit

SpecStore == InitStore /\ [][StoreNext]_vars

InitApp == AgentInit /\ cfgMaxRetries = MaxRetries /\ ChatInit /\ GenInit
    /\ CtorDone /\ StoreInit /\ AppInit
    /\ ClientInit

SpecApp == InitApp /\ [][AppNext]_vars

InitClients == AgentInit /\ cfgMaxRetries = MaxRetries /\ ChatInit /\ GenInit
    /\ CtorDone /\ StoreInit /\ AppInit
    /\ ClientInit

SpecClients == InitClients /\ [][ClientsNext]_vars

(***************************************************************************)
(* Properties of process_question and execute_query_with_retry, checked    *)
(* under SpecAgent.                                                        *)
(***************************************************************************)
ProcessQuestionCalled == caller = "process_question" /\ sql_response # NoResponse
ProcessQuestionReturned == ProcessQuestionCalled /\ pc = "done"
RetryReturned == exec_result # NoResult
AllCallsFailed == \A i \in 1..Len(storeLog) : ~storeLog[i].success

\* The query texts the specification calls "no query": empty, only
\* whitespace, or the token none in any letter case.
BlankOrNoneText(q) ==
    /\ q # None
    /\ \/ \A i \in 1..Len(q.some) : IsSpace(q.some[i])
       \/ Lower(q.some) = NoneLiteral

\* C1: whenever the generator's query is the empty string, a whitespace-only
\* string or the token "none" in any letter case, process_question never
\* executes the store and returns the chat-only result (success true, query
\* absent, results absent).
C1_BlankOrNoneIsChatOnly ==
    (ProcessQuestionCalled /\ BlankOrNoneText(sql_response.sql_query))
        => /\ storeLog = <<>>
           /\ pc = "done" => /\ result.success = TRUE
                             /\ result.sql_query = None
                             /\ result.results = None

\* C2: whenever the generator's query is absent (None), process_question
\* returns success = true with the generator's explanation and confidence
\* unchanged, and db_manager.execute_query is not called.
C2_AbsentQueryShortCircuits ==
    (ProcessQuestionCalled /\ sql_response.sql_query = None)
        => /\ pc = "done"
           /\ result.success = TRUE
           /\ result.sql_query = None
           /\ result.results = None
           /\ result.explanation = sql_response.explanation
           /\ result.confidence = sql_response.confidence
           /\ storeLog = <<>>
           /\ exec_result = NoResult

C2_Witness ==
    /\ ProcessQuestionReturned
    /\ sql_response.sql_query = None
    /\ sql_response.confidence = "high"
    /\ result.confidence = "high"

\* The attempt count a result dict carries, as the caller reads it
\* (streamlit_app_py.py line 680 reads the key 'retry_attempts').
AttemptCountOf(r) ==
    IF "retry_attempts" \in DOMAIN r THEN Some(r.retry_attempts) ELSE None

\* C3: the result returned by execute_query_with_retry carries an attempt
\* count equal to the number of store executions it made.
C3_ResultCarriesAttemptCount ==
    RetryReturned
        => /\ exec_result.success
                => AttemptCountOf(exec_result) = Some(Len(storeLog))
           /\ (~exec_result.success /\ max_retries >= 1)
                => AttemptCountOf(exec_result) = Some(max_retries)

\* C4: with a bound N >= 1 and a store that fails on every call, the store is
\* executed exactly N times and the result is success = false, results absent
\* and the error of the N-th attempt.
C4_AllFailReturnsLastError ==
    (RetryReturned /\ max_retries >= 1 /\ AllCallsFailed)
        => /\ Len(storeLog) = max_retries
           /\ exec_result.success = FALSE
           /\ exec_result.results = None
           /\ exec_result.error = storeLog[max_retries].error
           /\ exec_result.error # None

C4_Witness ==
    /\ RetryReturned
    /\ max_retries = 3
    /\ AllCallsFailed
    /\ Len(storeLog) = 3
    /\ storeLog[1].error # storeLog[3].error
    /\ storeLog[2].error # storeLog[3].error
    /\ exec_result.error = storeLog[3].error

\* C5: if the store first succeeds on its k-th call, the engine returns at
\* once with success = true, the rows of that call and no error; the k-th
\* call is the last one made and every call before it failed.
C5_SuccessReturnsImmediately ==
    \A k \in 1..Len(storeLog) :
        storeLog[k].success
            => /\ k = Len(storeLog)
               /\ k <= max_retries
               /\ attempt = k
               /\ \A j \in 1..(k - 1) : ~storeLog[j].success
               /\ pc = "done"
               /\ exec_result # NoResult
               /\ exec_result.success = TRUE
               /\ exec_result.results = storeLog[k].results
               /\ exec_result.error = None

C5_Witness ==
    /\ RetryReturned
    /\ Len(storeLog) = 2
    /\ ~storeLog[1].success
    /\ storeLog[2].success
    /\ storeLog[2].results = Some(<<Row1, Row2>>)
    /\ exec_result.success = TRUE

(***************************************************************************)
(* Properties of get_conversation_context, checked under SpecChat.         *)
(***************************************************************************)
ContextReturned == chat_pc # "open"

Min(a, b) == IF a < b THEN a ELSE b

\* user, assistant, user, assistant, ...: 2k messages.
WellFormed(msgs) ==
    /\ Len(msgs) % 2 = 0
    /\ \A i \in 1..Len(msgs) :
          msgs[i].role = (IF i % 2 = 1 THEN "user" ELSE "assistant")

\* The turn the specification expects of the messages at positions i, i + 1
\* (1-based).
ExpectedTurn(msgs, i) ==
    [question |-> msgs[i].content,
     sql |-> IF "sql_query" \in DOMAIN msgs[i + 1].metadata
             THEN msgs[i + 1].metadata.sql_query
             ELSE Some(<<>>),
     response |-> msgs[i + 1].content]

\* C6: for a well-formed alternating history of 2k messages and last_n >= 1,
\* the context is exactly the last min(k, last_n) exchanges, oldest first,
\* the j-th of them built from that exchange's user message and the
\* assistant message after it.
C6_WellFormedHistoryGivesLastTurns ==
    (ContextReturned /\ WellFormed(ctx_messages) /\ last_n >= 1)
        => LET k == Len(ctx_messages) \div 2
               m == Min(k, last_n)
           IN  /\ Len(context) = m
               /\ \A j \in 1..m :
                     context[j] = ExpectedTurn(ctx_messages, 2 * (k - m + j) - 1)

C6_Witness ==
    /\ chat_pc = "read"
    /\ WellFormed(ctx_messages)
    /\ Len(ctx_messages) = 4
    /\ last_n = 1
    /\ ctx_messages[1].content # ctx_messages[3].content
    /\ Len(context) = 1
    /\ context[1].question = ctx_messages[3].content

\* C7: a history of fewer than 2 messages gives an empty context.
C7_ShortHistoryGivesEmptyContext ==
    (ContextReturned /\ Len(ctx_messages) < 2) => context = <<>>

C7_Witness ==
    /\ chat_pc = "read"
    /\ Len(ctx_messages) = 1
    /\ ctx_messages[1].role = "user"
    /\ last_n >= 1
    /\ context = <<>>

\* The 1-based positions the scan pairs up: odd positions holding a user
\* message followed by an assistant message.
ScannedPairs(msgs) ==
    { i \in 1..(Len(msgs) - 1) :
        i % 2 = 1 /\ msgs[i].role = "user" /\ msgs[i + 1].role = "assistant" }

\* The j-th smallest element of a set of numbers.
Nth(S, j) == CHOOSE i \in S : Cardinality({ x \in S : x < i }) = j - 1

\* The generated query add_message was given for the message at position i:
\* the sql_query of its metadata, or the empty string when the metadata has
\* no such field.
SentQuery(i) ==
    LET md == sent[i][3]
    IN  IF md # None /\ "sql_query" \in DOMAIN md.some
        THEN md.some.sql_query
        ELSE Some(<<>>)

\* C8: a user message with content X followed by an assistant message with
\* content Z that was persisted with generated query Y comes back as the
\* turn {question: X, sql: Y, response: Z}; with no query field in the
\* metadata sql is the empty string.  (Stated for a last_n that truncates
\* nothing.)
C8_TurnRoundTrip ==
    (chat_pc = "read" /\ last_n >= 1 /\ 2 * last_n >= Len(messages))
        => LET P == ScannedPairs(messages)
           IN  /\ Len(context) = Cardinality(P)
               /\ \A j \in 1..Len(context) :
                     LET i == Nth(P, j)
                     IN  context[j] = [question |-> sent[i][2],
                                       sql |-> SentQuery(i + 1),
                                       response |-> sent[i + 1][2]]

C8_Witness ==
    /\ chat_pc = "read"
    /\ Len(context) = 2
    /\ context[1] = [question |-> <<"X1">>, sql |-> Some(Q1),
                     response |-> <<"Z2">>]
    /\ context[2] = [question |-> <<"X2">>, sql |-> Some(<<>>),
                     response |-> <<"Z1">>]

\* C9: a well-formed alternating history of 2k messages followed by one more
\* user message gives the same context as its first 2k messages alone: the
\* trailing user message makes no turn.
C9_TrailingUserMakesNoTurn ==
    (/\ chat_pc = "read"
     /\ Len(ctx_messages) % 2 = 1
     /\ WellFormed(SubSeq(ctx_messages, 1, Len(ctx_messages) - 1))
     /\ ctx_messages[Len(ctx_messages)].role = "user")
        => LET front == SubSeq(ctx_messages, 1, Len(ctx_messages) - 1)
           IN  /\ context = ConversationContext(front, last_n)
               /\ Len(context) <= Len(front) \div 2
               /\ \A j \in 1..Len(context) :
                     \E i \in 1..(Len(front) - 1) :
                         context[j] = ExpectedTurn(front, i)

C9_Witness ==
    /\ chat_pc = "read"
    /\ Len(ctx_messages) = 5
    /\ WellFormed(SubSeq(ctx_messages, 1, 4))
    /\ ctx_messages[5].role = "user"
    /\ last_n = 3
    /\ Len(context) = 2

\* C10: for every sequence of roles get_conversation_context completes, and
\* every turn it returns is built from a user message and the assistant
\* message right after it; the other messages are skipped.
C10_TurnsComeFromAdjacentPairs ==
    /\ chat_pc = "open" => ENABLED GetConversationContext
    /\ chat_pc = "read" =>
          \A j \in 1..Len(context) :
              \E i \in 1..(Len(ctx_messages) - 1) :
                  /\ ctx_messages[i].role = "user"
                  /\ ctx_messages[i + 1].role = "assistant"
                  /\ context[j] = ExpectedTurn(ctx_messages, i)

C10_Witness ==
    /\ chat_pc = "read"
    /\ Len(ctx_messages) = 5
    /\ ctx_messages[1].role = "user"
    /\ ctx_messages[2].role = "user"
    /\ ctx_messages[3].role = "assistant"
    /\ ctx_messages[4].role = "user"
    /\ ctx_messages[5].role = "assistant"
    /\ last_n = 3
    /\ context = <<>>

(***************************************************************************)
(* Properties of generate_sql, checked under SpecGenerate.                 *)
(***************************************************************************)
\* C11: generate_sql returns for every outcome of the model call, and when
\* the model call failed the response has no query, confidence "low" and an
\* explanation that contains the error text.
C11_ModelFailureBecomesLowConfidenceChat ==
    gen_pc = "returned"
        => /\ gen_response # NoResponse
           /\ model_call.failed
                => /\ gen_response.sql_query = None
                   /\ gen_response.confidence = "low"
                   /\ \E i \in 1..Len(gen_response.explanation) :
                         gen_response.explanation[i] = model_call.error

C11_Witness ==
    /\ gen_pc = "returned"
    /\ model_call.failed
    /\ model_call.error = "timeout"
    /\ gen_response.explanation = <<"Error: ", "timeout">>

\* Whether a history entry has a query that is present and non-empty.
HasQuery(t) ==
    IF "sql" \in DOMAIN t THEN (t.sql # None /\ t.sql.some # <<>>) ELSE FALSE

\* The prompt lines the specification gives one turn.
TurnLines(t) ==
    <<"Q: ">> \o t.question \o <<"\n">>
    \o (IF HasQuery(t) THEN <<"SQL: ">> \o t.sql.some \o <<"\n">> ELSE <<>>)

\* C12: with a non-empty history the prompt holds exactly the last
\* min(3, len(history)) turns, oldest first, each with a query line only if
\* its query is present and non-empty, before the current question; with
\* an empty history the prompt is the question itself.
C12_PromptHoldsLastThreeTurns ==
    gen_pc = "returned"
        => LET h == conversation_history
               n == Len(h)
               m == IF n < 3 THEN n ELSE 3
               T(j) == h[n - m + j]
           IN  IF n = 0
               THEN prompt = user_question
               ELSE prompt =
                      <<"Previous context:\n">>
                      \o TurnLines(T(1))
                      \o (IF m >= 2 THEN TurnLines(T(2)) ELSE <<>>)
                      \o (IF m >= 3 THEN TurnLines(T(3)) ELSE <<>>)
                      \o <<"\nCurrent question: ">> \o user_question

C12_Witness ==
    /\ gen_pc = "returned"
    /\ Len(conversation_history) = 4
    /\ conversation_history[1] # conversation_history[4]
    /\ HasQuery(conversation_history[2])
    /\ "sql" \in DOMAIN conversation_history[3]
    /\ ~HasQuery(conversation_history[3])
    /\ "sql" \notin DOMAIN conversation_history[4]
    /\ prompt = <<"Previous context:\n",
                  "Q: ", "X1", "\n", "SQL: ", "[", "]", "\n",
                  "Q: ", "X1", "\n",
                  "Q: ", "X2", "\n",
                  "\nCurrent question: ", "X2">>

(***************************************************************************)
(* Properties of the result of process_question, checked under SpecAgent.  *)
(***************************************************************************)
\* C13: when the generator returned a query that is executed, the result of
\* process_question has success, results and error of the retry engine's
\* result and query, explanation and confidence of the generator's
\* response, also when every attempt failed.
C13_ExecutedResultKeepsGeneratorFields ==
    (ProcessQuestionReturned /\ ~IsChatOnly(sql_response.sql_query))
        => /\ RetryReturned
           /\ DOMAIN result = {"success", "sql_query", "explanation",
                               "confidence", "results", "error"}
           /\ result.success = exec_result.success
           /\ result.results = exec_result.results
           /\ result.error = exec_result.error
           /\ result.sql_query = sql_response.sql_query
           /\ result.explanation = sql_response.explanation
           /\ result.confidence = sql_response.confidence
           /\ (AllCallsFailed /\ max_retries >= 1)
                => /\ result.success = FALSE
                   /\ result.error = storeLog[Len(storeLog)].error
           /\ (~AllCallsFailed)
                => /\ result.success = TRUE
                   /\ result.results = storeLog[Len(storeLog)].results

C13_Witness ==
    /\ ProcessQuestionReturned
    /\ sql_response.sql_query = Some(<<"[", "]">>)
    /\ sql_response.confidence = "high"
    /\ Len(storeLog) = 3
    /\ AllCallsFailed
    /\ result.success = FALSE
    /\ result.confidence = "high"
    /\ result.explanation = sql_response.explanation

\* C14 (checked under SpecAgentEnv): every result of process_question has a
\* success flag, and a result with success = false carries an error message
\* that is not None, for every configured retry bound.
C14_FailureCarriesErrorMessage ==
    ProcessQuestionReturned
        => /\ "success" \in DOMAIN result
           /\ result.success = FALSE
                => /\ "error" \in DOMAIN result
                   /\ result.error # None

(***************************************************************************)
(* Properties of SQLAgent.__init__, checked under SpecCtor.                *)
(***************************************************************************)
\* The schema file is missing or malformed: it cannot be parsed, is empty,
\* or its top level is not a mapping.
SchemaFileInvalid(f) ==
    IF f.kind = "yaml" THEN ~IsDict(f.document) ELSE TRUE

CtorFinished == ctor_pc \in {"constructed", "failed"}

\* C16: with a missing or malformed schema file (and a template that can be
\* read) construction succeeds and the system prompt is non-empty and
\* contains the fallback table label "unknown_table".
C16_BadSchemaStillGivesPromptWithFallbackLabel ==
    (CtorFinished /\ SchemaFileInvalid(schema_file) /\ template_file.readable)
        => /\ ctor_pc = "constructed"
           /\ system_prompt # <<>>
           /\ \E i \in 1..Len(system_prompt) :
                 system_prompt[i] = "unknown_table"

\* C17: _load_yaml_schema returns the empty mapping whenever the schema
\* file is missing, unparseable, empty, or has a top level that is not a
\* mapping.
C17_BadSchemaLoadsAsEmptyMapping ==
    (ctor_pc # "new" /\ SchemaFileInvalid(schema_file))
        => schema_info = EmptySchema

\* C18: if the template file cannot be read, _build_system_prompt returns
\* the fixed fallback string whatever the schema is, and construction does
\* not fail.
C18_UnreadableTemplateGivesFallback ==
    (~template_file.readable /\ ctor_pc \notin {"new", "schema_loaded"})
        => /\ ctor_pc \in {"prompt_built", "constructed"}
           /\ system_prompt = FallbackPrompt
           /\ ctor_error = None

C18_Witness ==
    /\ ~template_file.readable
    /\ schema_file = [kind |-> "yaml", document |-> None]
    /\ schema_info = None
    /\ ctor_pc = "constructed"
    /\ system_prompt = FallbackPrompt

(***************************************************************************)
(* Properties of ChatManager, checked under SpecStore.                     *)
(***************************************************************************)
\* C15: a failure of the store during a ChatManager operation reaches the
\* caller as a raised error.
C15_StoreFailureIsRaised == last_op.store_failed => last_op.raised

\* The sessions a get_all_sessions result lists are not deleted, and every
\* session whose delete_session returned True is marked deleted.
DeletedSessionsAreHidden ==
    /\ \A id \in deleted_ok : chat_sessions[id.oid].is_deleted
    /\ last_op.op = "get_all_sessions"
         => \A i \in 1..Len(last_op.ret) :
               /\ last_op.ret[i].session_id \notin deleted_ok
               /\ ~chat_sessions[last_op.ret[i].session_id.oid].is_deleted

\* No call changes a deleted session back or renames it, and
\* rename_session on it returns False.
DeletedSessionsStayDeleted ==
    \A n \in 1..Len(chat_sessions) :
        chat_sessions[n].is_deleted
            => /\ chat_sessions'[n].is_deleted
               /\ chat_sessions'[n].session_name = chat_sessions[n].session_name
               /\ (last_op'.op = "rename_session" /\ last_op'.id = Oid(n))
                    => last_op'.ret = FALSE

\* C19: once delete_session(id) has returned True, no later
\* get_all_sessions lists id, whatever create_session, add_message,
\* rename_session and delete_session calls come between: the session stays
\* marked deleted, and rename_session on it returns False and leaves its
\* name.
C19_DeletedSessionIsNeverListed ==
    []DeletedSessionsAreHidden /\ [][DeletedSessionsStayDeleted]_vars

\* Session 1 was deleted, a message was added to it afterwards (the
\* message's time is the session's last update), and get_all_sessions then
\* returned without it.
C19_Witness ==
    /\ Oid(1) \in deleted_ok
    /\ chat_sessions[1].is_deleted
    /\ \E k \in 1..Len(chat_messages) :
          /\ chat_messages[k].session_id = Oid(1)
          /\ chat_messages[k].created_at = chat_sessions[1].updated_at
    /\ last_op.op = "get_all_sessions"
    /\ ~last_op.store_failed
    /\ \A i \in 1..Len(last_op.ret) : last_op.ret[i].session_id # Oid(1)

\* b extends a.
SeqExtends(a, b) == Len(a) <= Len(b) /\ SubSeq(b, 1, Len(a)) = a

\* C20: what get_session_messages returns for a session extends what it
\* returned for that session before (here: in the call just before), and
\* no session document is removed.
C20_ReturnedMessagesOnlyGrow ==
    [][/\ Len(chat_sessions') >= Len(chat_sessions)
       /\ (/\ last_op.op = "get_session_messages"
           /\ last_op'.op = "get_session_messages"
           /\ last_op'.id = last_op.id
           /\ SessionExists(last_op.id))
            => SeqExtends(last_op.ret, last_op'.ret)]_vars

(***************************************************************************)
(* Properties of the retry loop.                                           *)
(***************************************************************************)
\* The kind of a store error: the text before the detail.
ErrorKind(call) == call.error.some[1]

\* The executions a call with this bound makes when every one fails.
AttemptsAllowed == IF max_retries > 0 THEN max_retries ELSE 0

\* C21 (SpecAgent): every execution of one execute_query_with_retry call is
\* given the query string the call was entered with, and a failure of any
\* kind is followed by the next attempt until the bound is reached.
C21_RetriesRepeatTheSameQuery ==
    /\ \A i \in 1..Len(storeLog) : storeLog[i].query = sql_query
    /\ (pc = "retry" /\ LoopContinues(attempt, max_retries))
         => (ENABLED AttemptFails \/ ENABLED AttemptSucceeds)
    /\ (RetryReturned /\ AllCallsFailed) => Len(storeLog) = AttemptsAllowed

C21_Witness ==
    /\ RetryReturned
    /\ Len(storeLog) = 3
    /\ AllCallsFailed
    /\ ErrorKind(storeLog[1]) = "MongoDB Operation Error: "
    /\ ErrorKind(storeLog[2]) = "Database Error: "
    /\ storeLog[1].query = storeLog[3].query
    /\ sql_query # <<>>

\* C22 (SpecAgent): execute_query_with_retry executes the query at least
\* once before it returns, for every max_retries, and a returned failure
\* carries the error of an execution that was made.
C22_AtLeastOneAttempt ==
    RetryReturned
        => /\ Len(storeLog) >= 1
           /\ exec_result.success = FALSE
                => \E i \in 1..Len(storeLog) :
                      exec_result.error = storeLog[i].error

\* Each step of the loop adds one to attempt and makes one execution.
OneAttemptPerIteration ==
    (pc = "retry" /\ attempt' # attempt)
        => /\ attempt' = attempt + 1
           /\ Len(storeLog') = Len(storeLog) + 1

\* C25 (SpecAgentLive): execute_query_with_retry returns, after at most
\* max_retries executions of the store; attempt grows by one per iteration
\* and the loop ends when it reaches the bound.
C25_RetryLoopTerminates ==
    /\ [](Len(storeLog) <= AttemptsAllowed /\ attempt = Len(storeLog))
    /\ [][OneAttemptPerIteration]_vars
    /\ (pc = "retry") ~> (pc = "done" /\ RetryReturned)

C25_Witness ==
    /\ pc = "done"
    /\ RetryReturned
    /\ max_retries = 3
    /\ attempt = 3
    /\ Len(storeLog) = 3
    /\ ~exec_result.success

\* C23 (SpecChat): get_conversation_context returns at most last_n turns,
\* for every history and every last_n >= 0; with last_n = 0 it returns
\* none.
C23_ContextHasAtMostLastNTurns ==
    (ContextReturned /\ last_n >= 0) => Len(context) <= last_n

(***************************************************************************)
(* Properties of add_message, checked under SpecStore.                     *)
(***************************************************************************)
\* The step is a call of add_message.
AddMessageStep == clock' # clock /\ last_op'.op = "add_message"

\* C29: when add_message raises, no message was added and no session's
\* updated_at changed; when it returns a message id, the message is stored
\* and belongs to an existing session whose updated_at was bumped.
C29_AddMessageIsAllOrNothing ==
    [][AddMessageStep
         => IF last_op'.raised
            THEN /\ chat_messages' = chat_messages
                 /\ chat_sessions' = chat_sessions
            ELSE /\ Len(chat_messages') = Len(chat_messages) + 1
                 /\ chat_messages'[Len(chat_messages')].id = last_op'.ret.some
                 /\ chat_messages'[Len(chat_messages')].session_id = last_op'.id
                 /\ SessionExists(last_op'.id)
                 /\ chat_sessions'[last_op'.id.oid].updated_at
                      > chat_sessions[last_op'.id.oid].updated_at]_vars

(***************************************************************************)
(* Properties of handle_user_input, checked under SpecApp.                 *)
(***************************************************************************)
\* s is an initial part of t.
IsPrefixOf(s, t) == Len(s) <= Len(t) /\ SubSeq(t, 1, Len(s)) = s

\* The generator's response holds a query: text that is neither blank nor
\* the word none.
QueryPresent(resp) ==
    IF resp.sql_query = None THEN FALSE
    ELSE /\ Strip(resp.sql_query.some) # <<>>
         /\ Lower(Strip(resp.sql_query.some)) # NoneLiteral

Executed == \E i \in 1..Len(app_events) : app_events[i] = "execute"

\* C24: within one handled question the user message is persisted, then
\* the context is read from the persisted history, then the generator is
\* called once, then (only if it gave a query) the retry engine is invoked
\* once, and only then is the assistant message persisted.
C24_OneQuestionRunsInOrder ==
    /\ \/ IsPrefixOf(app_events, <<"persist_user", "read_context", "generate",
                                   "execute", "persist_assistant">>)
       \/ IsPrefixOf(app_events, <<"persist_user", "read_context", "generate",
                                   "persist_assistant">>)
    /\ Executed => (app_response # NoResponse /\ QueryPresent(app_response))
    /\ (app_pc = "answered" /\ ~Executed) => ~QueryPresent(app_response)
    /\ (app_pc \in {"context_read", "execute", "answered"} /\ app_read = "ok")
         => /\ app_history[Len(app_history)].role = "user"
            /\ app_history[Len(app_history)].content = AppQuestion(handled)
            /\ app_context = ConversationContext(app_history, ContextLastN)

\* user, assistant, user, assistant, ...
Alternates(h) ==
    \A i \in 1..Len(h) :
        h[i].role = IF i % 2 = 1 THEN "user" ELSE "assistant"

\* C26: after any sequence of handle_user_input calls the persisted
\* history alternates user, assistant, user, assistant, ..., starting
\* with a user message.
C26_HistoryAlternates == Alternates(app_history)

\* C27: every user message directly followed by an assistant message is a
\* turn of the context a successful history read gives the call (last_n is
\* at least the number of exchanges).
C27_CompletedExchangesStayInContext ==
    (app_pc = "context_read" /\ app_read = "ok"
       /\ Len(app_history) <= 2 * ContextLastN)
        => \A i \in 1..(Len(app_history) - 1) :
              (app_history[i].role = "user"
                 /\ app_history[i + 1].role = "assistant")
                => \E j \in 1..Len(app_context) :
                      app_context[j] = Turn(app_history[i], app_history[i + 1])

\* A call made while the flag is set changes nothing but the warning.
BusyCallChangesNothing ==
    (processing /\ HandleUserInput)
        => /\ warned'
           /\ UNCHANGED <<st_messages, app_history, processing, app_pc,
                          app_events, handled>>

\* C28: a call made while processing is true changes neither
\* st.session_state.messages nor the persisted history, and a call that
\* set the flag has reset it when it ends, on the success path and on
\* every exception path.
C28_ProcessingFlagIsReset ==
    /\ [](app_pc = "idle" => processing = FALSE)
    /\ [](app_pc # "idle" => processing = TRUE)
    /\ [][BusyCallChangesNothing]_vars

\* The second call ended through the except clause after its user message
\* was persisted, and the flag is down.
C28_Witness ==
    /\ app_pc = "idle"
    /\ handled = 2
    /\ processing = FALSE
    /\ warned
    /\ Len(app_history) = 3
    /\ app_history[3].role = "user"
    /\ Len(st_messages) = 3

(***************************************************************************)
(* Properties of the current session, checked under SpecClients.           *)
(***************************************************************************)
\* The client has a current session and it is soft-deleted.
CurrentIsDeleted(c) ==
    /\ current_session_id[c] # NoId
    /\ chat_sessions[current_session_id[c].oid].is_deleted

\* C30 as stated: the current session of every client, of two sharing the
\* store, is a session with is_deleted = false.
C30_CurrentSessionIsNeverDeleted ==
    \A c \in Clients : ~CurrentIsDeleted(c)

\* C30: a client never soft-deletes its own current session: if the
\* current session of a client is soft-deleted, it was another client of
\* the store that deleted it.
C30_NoClientDeletesItsCurrentSession ==
    \A c \in Clients :
        current_session_id[c] # NoId
            => /\ c \notin deleted_by[current_session_id[c].oid]
               /\ CurrentIsDeleted(c)
                    => deleted_by[current_session_id[c].oid] # {}

C30_Witness ==
    /\ CurrentIsDeleted("a")
    /\ deleted_by[current_session_id["a"].oid] = {"b"}
    /\ ~CurrentIsDeleted("b")

====
